---- MODULE Spec2Model ----
(***************************************************************************)
(* Model of src/src/index.ts: spawn(command, args, options), a promise     *)
(* wrapper around node:child_process spawn.  One record per invocation     *)
(* holds the closure state of that invocation (options, child, listeners,  *)
(* accumulators, promise); the AbortSignal handed to the invocations is    *)
(* one shared flag.  Every listener of the source is an operator from      *)
(* invocation record to invocation record; the actions are the events the  *)
(* platform delivers (the call itself, data chunks, abort, close, error).  *)
(***************************************************************************)
EXTENDS Integers, Sequences, FiniteSets, TLC

\* ---------------------------------------------------------------- bounds
\* chunks the streams of all invocations deliver in one run
MaxChunks == 3
\* calls of child.kill in one run
MaxKills == 2
\* chunks delivered in one run of two interleaved invocations
MaxChunks2 == 1

\* ------------------------------------------------------------ value sets
\* the invocations of spawn; Spec runs the first one
Invs == {1, 2}

\* a nullable value (number | null, Signals | null) is <<>> or <<v>>
NULL == <<>>

Some(x) == <<x>>

\* Buffers are byte sequences: "a", and the two bytes of U+00E9 split
Chunks == {<<97>>, <<195>>, <<169>>}

\* (code, signal) pairs a close event reports
ClosePairs ==
  { [code |-> Some(0), signal |-> NULL],
    [code |-> Some(1), signal |-> NULL],
    [code |-> NULL, signal |-> Some("SIGTERM")],
    [code |-> NULL, signal |-> Some("SIGABRT")] }

\* errors an error event reports (a failed spawn)
SpawnErrors ==
  { [message |-> "spawn ENOENT", code |-> "ENOENT"],
    [message |-> "spawn EACCES", code |-> "EACCES"] }

ListenerNames == {"stdout", "stderr", "abort", "close", "error"}

VARIABLES inv, aborted

vars == <<inv, aborted>>

\* ------------------------------------------------------- pure operators
\* a JS string is tagged with its type and holds its code points; a Buffer
\* (a chunk) is the bare sequence of its bytes
Str(chars) == [type |-> "string", chars |-> chars]

\* a + b on strings
strConcat(a, b) == Str(a.chars \o b.chars)

\* UTF-8 decoding to code points, U+FFFD for every byte that is not part of
\* a well-formed sequence
RECURSIVE utf8Decode(_)
utf8Decode(b) ==
  IF b = <<>> THEN <<>>
  ELSE IF b[1] < 128 THEN <<b[1]>> \o utf8Decode(Tail(b))
  ELSE IF /\ b[1] >= 194 /\ b[1] <= 223
          /\ Len(b) >= 2 /\ b[2] >= 128 /\ b[2] <= 191
       THEN <<(b[1] - 192) * 64 + (b[2] - 128)>> \o utf8Decode(Tail(Tail(b)))
  ELSE <<65533>> \o utf8Decode(Tail(b))

\* Buffer.prototype.toString(): the chunk decoded as UTF-8, a string
toString(b) == Str(utf8Decode(b))

\* the promise: resolve and reject take effect on a pending promise only
Pending == [kind |-> "pending"]

resolve(p, value) ==
  IF p.kind = "pending" THEN [kind |-> "resolved", value |-> value] ELSE p

rejectOverwrite(p, error) == [kind |-> "rejected", error |-> error]

reject(p, error) ==
  IF p.kind = "pending" THEN [kind |-> "rejected", error |-> error] ELSE p

AbortError ==
  [message |-> "Operation was aborted",
   cause |-> [code |-> NULL, signal |-> Some("SIGABRT")]]

\* child.kill(sig)
kill(s, sig) == [s EXCEPT !.kills = Append(@, sig)]

abortAndReject(s) ==
  LET s1 == kill(s, "SIGABRT")
  IN [s1 EXCEPT !.promise =
        reject(@, [message |-> "Aborted by callback",
                   cause |-> [code |-> NULL, signal |-> Some("SIGABRT")]])]

\* const abort = () => child.kill("SIGABRT")
abort(s) == kill(s, "SIGABRT")

\* the caller's onStdOut(chunk, abort): it sees the chunk, holds abort from
\* then on, and may call it at once
onStdOut(s, chunk, callsAbort) ==
  LET s1 == [s EXCEPT !.stdoutCalls = Append(@, chunk), !.abortCap = TRUE]
  IN IF callsAbort THEN abort(s1) ELSE s1

onStdErr(s, chunk, callsAbort) ==
  LET s1 == [s EXCEPT !.stderrCalls = Append(@, chunk), !.abortCap = TRUE]
  IN IF callsAbort THEN abort(s1) ELSE s1

stdoutHandlerBoth(s, chunk, callsAbort) ==
  LET s1 == [s EXCEPT !.stdoutData = strConcat(@, toString(chunk))]
  IN IF s.onStdOut THEN onStdOut(s1, chunk, callsAbort) ELSE s1

stdoutHandlerTwice(s, chunk, callsAbort) ==
  IF s.onStdOut
  THEN onStdOut(onStdOut(s, chunk, callsAbort), chunk, FALSE)
  ELSE [s EXCEPT !.stdoutData = strConcat(@, toString(chunk))]

stdoutHandler(s, chunk, callsAbort) ==
  IF s.onStdOut
  THEN onStdOut(s, chunk, callsAbort)
  ELSE [s EXCEPT !.stdoutData = strConcat(@, toString(chunk))]

stderrHandlerWrongAccumulator(s, chunk, callsAbort) ==
  IF s.onStdErr
  THEN onStdErr(s, chunk, callsAbort)
  ELSE [s EXCEPT !.stdoutData = strConcat(@, toString(chunk))]

stderrHandler(s, chunk, callsAbort) ==
  IF s.onStdErr
  THEN onStdErr(s, chunk, callsAbort)
  ELSE [s EXCEPT !.stderrData = strConcat(@, toString(chunk))]

abortHandlerKillOnly(s) == kill(s, "SIGTERM")

abortHandlerRejectOnly(s) ==
  [s EXCEPT !.promise = reject(@, AbortError)]

abortHandlerSigabrt(s) ==
  LET s1 == kill(s, "SIGABRT")
  IN [s1 EXCEPT !.promise = reject(@, AbortError)]

abortHandler(s) ==
  LET s1 == kill(s, "SIGTERM")
  IN [s1 EXCEPT !.promise = reject(@, AbortError)]

cleanupKeepsAbort(s) ==
  [s EXCEPT !.listeners = @ \cap {"abort"}, !.cleanups = @ + 1]

cleanup(s) ==
  [s EXCEPT !.listeners = {}, !.cleanups = @ + 1]

closeMessageSwapped(code, signal) ==
  IF signal = NULL
  THEN "Process killed with signal: null"
  ELSE "Process exited with code: "
         \o (IF code = NULL THEN "null" ELSE ToString(code[1]))

\* `Process killed with signal: ${signal}` / `Process exited with code: ${code}`
closeMessage(code, signal) ==
  IF signal # NULL
  THEN "Process killed with signal: " \o signal[1]
  ELSE "Process exited with code: "
         \o (IF code = NULL THEN "null" ELSE ToString(code[1]))

\* { code, signal, ...(onStdOut ? {} : {stdout}), ...(onStdErr ? {} : {stderr}) }
result(s, code, signal) ==
  LET base == [code |-> code, signal |-> signal]
      out == IF s.onStdOut THEN base ELSE base @@ ("stdout" :> s.stdoutData)
  IN IF s.onStdErr THEN out ELSE out @@ ("stderr" :> s.stderrData)

onCloseSignalOnly(s, code, signal) ==
  LET s1 == cleanup(s)
  IN IF signal = NULL
     THEN [s1 EXCEPT !.promise = resolve(@, result(s1, code, signal))]
     ELSE [s1 EXCEPT !.promise =
             reject(@, [message |-> closeMessage(code, signal),
                        cause |-> [code |-> code, signal |-> signal]])]

onCloseDataFields(s, code, signal) ==
  LET s1 == cleanup(s)
      base == [code |-> code, signal |-> signal]
      out == IF s.stdoutData = Str(<<>>) THEN base
             ELSE base @@ ("stdout" :> s.stdoutData)
      res == IF s.stderrData = Str(<<>>) THEN out
             ELSE out @@ ("stderr" :> s.stderrData)
  IN IF code = Some(0) /\ signal = NULL
     THEN [s1 EXCEPT !.promise = resolve(@, res)]
     ELSE [s1 EXCEPT !.promise =
             reject(@, [message |-> closeMessage(code, signal),
                        cause |-> [code |-> code, signal |-> signal]])]

onClose(s, code, signal) ==
  LET s1 == cleanup(s)
  IN IF code = Some(0) /\ signal = NULL
     THEN [s1 EXCEPT !.promise = resolve(@, result(s1, code, signal))]
     ELSE [s1 EXCEPT !.promise =
             reject(@, [message |-> closeMessage(code, signal),
                        cause |-> [code |-> code, signal |-> signal]])]

onErrorNoReject(s, err) == cleanup(s)

onErrorWrapped(s, err) ==
  LET s1 == cleanup(s)
  IN [s1 EXCEPT !.promise =
        reject(@, [message |-> err.message,
                   cause |-> [code |-> NULL, signal |-> NULL]])]

onError(s, err) ==
  LET s1 == cleanup(s)
  IN [s1 EXCEPT !.promise = reject(@, err)]

\* the executor of the promise spawn returns; sigAborted is signal.aborted
spawnNoPreflight(s, sigAborted) ==
  [s EXCEPT !.called = TRUE,
            !.child = "running",
            !.listeners = {"stdout", "stderr", "close", "error"}
                            \cup (IF s.signal THEN {"abort"} ELSE {})]

spawn(s, sigAborted) ==
  IF s.signal /\ sigAborted
  THEN [s EXCEPT !.called = TRUE, !.promise = reject(@, AbortError)]
  ELSE [s EXCEPT !.called = TRUE,
                 !.child = "running",
                 !.listeners = {"stdout", "stderr", "close", "error"}
                                 \cup (IF s.signal THEN {"abort"} ELSE {})]

\* ---------------------------------------------------------------- state
\* an invocation before it is called, with the options it will be given
Idle(o, e, g) ==
  [ onStdOut |-> o, onStdErr |-> e, signal |-> g,
    called |-> FALSE,
    child |-> "none", errorEmitted |-> FALSE,
    listeners |-> {},
    stdoutData |-> Str(<<>>), stderrData |-> Str(<<>>),
    stdoutCalls |-> <<>>, stderrCalls |-> <<>>,
    abortCap |-> FALSE,
    kills |-> <<>>,
    promise |-> Pending,
    cleanups |-> 0,
    \* history: what the environment did
    abortedAtCall |-> FALSE,
    stdoutEmitted |-> <<>>, stderrEmitted |-> <<>>,
    settledBy |-> [ev |-> "none"] ]

\* records the event during which the promise left "pending"
Note(s, s2, ev) ==
  IF s.promise.kind = "pending" /\ s2.promise.kind # "pending"
  THEN [s2 EXCEPT !.settledBy = ev]
  ELSE s2

\* number of chunks delivered so far, over all invocations
Emitted ==
  Len(inv[1].stdoutEmitted) + Len(inv[1].stderrEmitted)
    + Len(inv[2].stdoutEmitted) + Len(inv[2].stderrEmitted)

Init ==
  /\ aborted = FALSE
  /\ \E o \in BOOLEAN, e \in BOOLEAN, g \in BOOLEAN :
       inv = [i \in Invs |-> IF i = 1 THEN Idle(o, e, g)
                             ELSE Idle(FALSE, FALSE, FALSE)]

\* --------------------------------------------------------------- actions
\* the caller calls spawn(command, args, options)
Spawn(i) ==
  /\ ~inv[i].called
  /\ LET s == [inv[i] EXCEPT !.abortedAtCall = inv[i].signal /\ aborted]
     IN inv' = [inv EXCEPT ![i] = Note(s, spawn(s, aborted),
                                       [ev |-> "preflight"])]
  /\ UNCHANGED aborted

StdoutDataShared(i) ==
  /\ inv[i].child = "running"
  /\ Emitted < MaxChunks
  /\ \E chunk \in Chunks, callsAbort \in BOOLEAN :
       /\ callsAbort => Len(inv[i].kills) < MaxKills
       /\ LET s == [inv[i] EXCEPT !.stdoutEmitted = Append(@, chunk)]
          IN inv' = [j \in Invs |->
                       IF j = i
                       THEN IF "stdout" \in s.listeners
                            THEN stdoutHandler(s, chunk, callsAbort)
                            ELSE s
                       ELSE IF inv[j].called /\ ~inv[j].onStdOut
                            THEN [inv[j] EXCEPT !.stdoutData =
                                    strConcat(@, toString(chunk))]
                            ELSE inv[j]]
  /\ UNCHANGED aborted

\* child.stdout emits "data"
StdoutData(i) ==
  /\ inv[i].child = "running"
  /\ Emitted < MaxChunks
  /\ \E chunk \in Chunks, callsAbort \in BOOLEAN :
       /\ callsAbort => Len(inv[i].kills) < MaxKills
       /\ LET s == [inv[i] EXCEPT !.stdoutEmitted = Append(@, chunk)]
          IN inv' = [inv EXCEPT ![i] =
                       IF "stdout" \in s.listeners
                       THEN stdoutHandler(s, chunk, callsAbort)
                       ELSE s]
  /\ UNCHANGED aborted

\* child.stderr emits "data"
StderrData(i) ==
  /\ inv[i].child = "running"
  /\ Emitted < MaxChunks
  /\ \E chunk \in Chunks, callsAbort \in BOOLEAN :
       /\ callsAbort => Len(inv[i].kills) < MaxKills
       /\ LET s == [inv[i] EXCEPT !.stderrEmitted = Append(@, chunk)]
          IN inv' = [inv EXCEPT ![i] =
                       IF "stderr" \in s.listeners
                       THEN stderrHandler(s, chunk, callsAbort)
                       ELSE s]
  /\ UNCHANGED aborted

\* caller code that kept the abort capability calls it later
CallAbort(i) ==
  /\ inv[i].abortCap
  /\ Len(inv[i].kills) < MaxKills
  /\ inv' = [inv EXCEPT ![i] = abort(inv[i])]
  /\ UNCHANGED aborted

\* the AbortSignal fires: every registered abort listener runs
SignalAbort ==
  /\ ~aborted
  /\ \E i \in Invs : inv[i].signal
  /\ aborted' = TRUE
  /\ inv' = [i \in Invs |->
               IF "abort" \in inv[i].listeners
               THEN Note(inv[i], abortHandler(inv[i]), [ev |-> "abort"])
               ELSE inv[i]]

\* child emits "close" (once: the listener is removed before it runs)
Close(i) ==
  /\ inv[i].child = "running"
  /\ \E p \in ClosePairs :
       LET s == [inv[i] EXCEPT !.child = "closed"]
       IN inv' = [inv EXCEPT ![i] =
                    IF "close" \in s.listeners
                    THEN Note(s, onClose([s EXCEPT !.listeners = @ \ {"close"}],
                                         p.code, p.signal),
                              [ev |-> "close", code |-> p.code,
                               signal |-> p.signal])
                    ELSE s]
  /\ UNCHANGED aborted

\* child emits "error" (once: the listener is removed before it runs)
Error(i) ==
  /\ inv[i].child = "running"
  /\ ~inv[i].errorEmitted
  /\ \E err \in SpawnErrors :
       LET s == [inv[i] EXCEPT !.errorEmitted = TRUE]
       IN inv' = [inv EXCEPT ![i] =
                    IF "error" \in s.listeners
                    THEN Note(s, onError([s EXCEPT !.listeners = @ \ {"error"}],
                                         err),
                              [ev |-> "error", err |-> err])
                    ELSE s]
  /\ UNCHANGED aborted

Next ==
  \/ Spawn(1)
  \/ StdoutData(1)
  \/ StderrData(1)
  \/ CallAbort(1)
  \/ SignalAbort
  \/ Close(1)
  \/ Error(1)

Spec == Init /\ [][Next]_vars

\* a started process eventually emits close or error
Terminates == Close(1) \/ Error(1)

FairSpec == Spec /\ WF_vars(Terminates)

\* the options of an invocation as a number, to order pairs of invocations
OptionsRank(o, e, g) ==
  (IF o THEN 4 ELSE 0) + (IF e THEN 2 ELSE 0) + (IF g THEN 1 ELSE 0)

\* two invocations of spawn run interleaved; an invocation that is given a
\* signal is given the one AbortSignal.  The two are interchangeable, so
\* only the pairs of options in one order are taken.
Init2 ==
  /\ aborted = FALSE
  /\ \E o1 \in BOOLEAN, e1 \in BOOLEAN, g1 \in BOOLEAN,
        o2 \in BOOLEAN, e2 \in BOOLEAN, g2 \in BOOLEAN :
       /\ OptionsRank(o1, e1, g1) <= OptionsRank(o2, e2, g2)
       /\ inv = [i \in Invs |-> IF i = 1 THEN Idle(o1, e1, g1)
                                ELSE Idle(o2, e2, g2)]

Next2 ==
  \/ \E i \in Invs : Spawn(i)
  \/ \E i \in Invs : Emitted < MaxChunks2 /\ StdoutData(i)
  \/ \E i \in Invs : Emitted < MaxChunks2 /\ StderrData(i)
  \/ \E i \in Invs : CallAbort(i)
  \/ SignalAbort
  \/ \E i \in Invs : Close(i)
  \/ \E i \in Invs : Error(i)

Spec2 == Init2 /\ [][Next2]_vars

\* ---------------------------------------------------------------- claims
\* C1: once the promise has settled its outcome (resolved value or
\* rejection error) never changes, whatever events follow; it is never
\* resolved and rejected both.
C1_SettlesOnce ==
  [][\A i \in Invs :
       inv[i].promise.kind # "pending" => inv'[i].promise = inv[i].promise]_vars

\* rejected by the abort signal, and afterwards onClose ran and called
\* resolve or reject a second time
C1_Witness ==
  \E i \in Invs :
    /\ inv[i].promise.kind = "rejected"
    /\ inv[i].settledBy.ev = "abort"
    /\ inv[i].child = "closed"
    /\ inv[i].cleanups = 1

\* C2: every invocation settles: on the pre-flight path within the call,
\* otherwise eventually, given that a started process emits close or error.
C2_EventuallySettles ==
  \A i \in Invs :
    /\ [](inv[i].called /\ inv[i].child = "none"
            => inv[i].promise.kind # "pending")
    /\ (inv[i].called ~> inv[i].promise.kind # "pending")

\* a started process whose close event settled the promise
C2_Witness ==
  \E i \in Invs :
    /\ inv[i].child = "closed"
    /\ inv[i].settledBy.ev = "close"
    /\ inv[i].promise.kind # "pending"

\* C3: the promise is resolved only by a close event with code 0 and no
\* signal, and then with code=0, signal=null; a settling close event with
\* another pair, an error event and a cancellation each reject.
C3_ResolveOnlyOnCleanClose ==
  \A i \in Invs :
    LET s == inv[i] IN
    /\ s.promise.kind = "resolved" =>
         /\ s.settledBy.ev = "close"
         /\ s.settledBy.code = Some(0) /\ s.settledBy.signal = NULL
         /\ s.promise.value.code = Some(0)
         /\ s.promise.value.signal = NULL
    /\ (/\ s.settledBy.ev = "close"
        /\ ~(s.settledBy.code = Some(0) /\ s.settledBy.signal = NULL))
         => s.promise.kind = "rejected"
    /\ s.settledBy.ev \in {"error", "abort", "preflight"}
         => s.promise.kind = "rejected"

\* a close event with code 1 and no signal settled the promise
C3_Witness ==
  \E i \in Invs :
    /\ inv[i].settledBy.ev = "close"
    /\ inv[i].settledBy.code = Some(1)
    /\ inv[i].settledBy.signal = NULL
    /\ inv[i].promise.kind = "rejected"

\* C4: if the signal is already aborted when spawn is called, no process is
\* started, no listener is registered, no handler is ever invoked, and the
\* promise rejects with "Operation was aborted", cause code=null,
\* signal="SIGABRT".
C4_Preflight ==
  \A i \in Invs :
    LET s == inv[i] IN
    (s.called /\ s.abortedAtCall) =>
      /\ s.child = "none"
      /\ s.listeners = {}
      /\ s.stdoutCalls = <<>> /\ s.stderrCalls = <<>>
      /\ s.kills = <<>>
      /\ s.promise.kind = "rejected"
      /\ s.promise.error.message = "Operation was aborted"
      /\ s.promise.error.cause = [code |-> NULL, signal |-> Some("SIGABRT")]

\* spawn was called with an aborted signal and both handlers supplied
C4_Witness ==
  \E i \in Invs :
    /\ inv[i].called /\ inv[i].abortedAtCall
    /\ inv[i].onStdOut /\ inv[i].onStdErr

\* C5: when the signal fires while the process runs and no close or error
\* event was handled, that step sends SIGTERM and rejects the promise with
\* cause code=null, signal="SIGABRT"; the process has not closed.
C5_InFlightAbort ==
  [][\A i \in Invs :
       (/\ ~aborted /\ aborted'
        /\ inv[i].signal /\ inv[i].child = "running"
        /\ ~inv[i].errorEmitted)
         => /\ inv'[i].kills = Append(inv[i].kills, "SIGTERM")
            /\ inv'[i].promise = [kind |-> "rejected", error |-> AbortError]
            /\ inv'[i].child = "running"]_vars

\* the abort signal settled the promise of a process that is still running
C5_Witness ==
  \E i \in Invs :
    /\ inv[i].settledBy.ev = "abort"
    /\ inv[i].child = "running"
    /\ inv[i].kills # <<>>

\* C6: on an abnormal close the rejection's cause carries the accumulated
\* output of every stream that has no handler, besides code and signal.
C6_CauseCarriesOutput ==
  \A i \in Invs :
    LET s == inv[i] IN
    (s.settledBy.ev = "close" /\ s.promise.kind = "rejected") =>
      /\ s.promise.error.cause.code = s.settledBy.code
      /\ s.promise.error.cause.signal = s.settledBy.signal
      /\ ~s.onStdOut =>
           /\ "stdout" \in DOMAIN s.promise.error.cause
           /\ s.promise.error.cause.stdout = s.stdoutData
      /\ ~s.onStdErr =>
           /\ "stderr" \in DOMAIN s.promise.error.cause
           /\ s.promise.error.cause.stderr = s.stderrData

\* C7: in the step that settles the promise, on every terminal path, no
\* listener of the invocation stays registered.
C7_NoListenerAtSettlement ==
  [][\A i \in Invs :
       (inv[i].promise.kind = "pending" /\ inv'[i].promise.kind # "pending")
         => inv'[i].listeners = {}]_vars

\* C8: after the promise has settled no caller handler is invoked and no
\* coordinator callback runs, whatever events arrive.
C8_NoCallbackAfterSettlement ==
  [][\A i \in Invs :
       inv[i].promise.kind # "pending"
         => /\ inv'[i].stdoutCalls = inv[i].stdoutCalls
            /\ inv'[i].stderrCalls = inv[i].stderrCalls
            /\ inv'[i].stdoutData = inv[i].stdoutData
            /\ inv'[i].stderrData = inv[i].stderrData
            /\ inv'[i].cleanups = inv[i].cleanups]_vars

\* C9: per stream, a chunk delivered to the data listener goes to the
\* handler when one was supplied, and the accumulator of that stream stays
\* empty throughout; without a handler it is appended, decoded, to the
\* accumulator and no caller code runs for it.
C9_HandlerOrAccumulator ==
  /\ [](\A i \in Invs :
          /\ inv[i].onStdOut => inv[i].stdoutData = Str(<<>>)
          /\ inv[i].onStdErr => inv[i].stderrData = Str(<<>>)
          /\ ~inv[i].onStdOut => inv[i].stdoutCalls = <<>>
          /\ ~inv[i].onStdErr => inv[i].stderrCalls = <<>>)
  /\ [][\A i \in Invs :
          LET s == inv[i]
              t == inv'[i]
          IN
          /\ (t.stdoutEmitted # s.stdoutEmitted /\ "stdout" \in s.listeners)
               => LET chunk == t.stdoutEmitted[Len(t.stdoutEmitted)] IN
                  IF s.onStdOut
                  THEN t.stdoutCalls = Append(s.stdoutCalls, chunk)
                  ELSE /\ t.stdoutData = strConcat(s.stdoutData, toString(chunk))
                       /\ t.abortCap = s.abortCap
                       /\ t.kills = s.kills
          /\ (t.stderrEmitted # s.stderrEmitted /\ "stderr" \in s.listeners)
               => LET chunk == t.stderrEmitted[Len(t.stderrEmitted)] IN
                  IF s.onStdErr
                  THEN t.stderrCalls = Append(s.stderrCalls, chunk)
                  ELSE /\ t.stderrData = strConcat(s.stderrData, toString(chunk))
                       /\ t.abortCap = s.abortCap
                       /\ t.kills = s.kills]_vars

\* one stream handled and the other accumulated, both with chunks received
C9_Witness ==
  \E i \in Invs :
    /\ inv[i].onStdOut /\ ~inv[i].onStdErr
    /\ Len(inv[i].stdoutCalls) = 2
    /\ Len(inv[i].stderrData.chars) = 1

\* C10: the resolved result has a stdout field exactly when no onStdOut was
\* supplied and a stderr field exactly when no onStdErr was supplied,
\* whatever events were received.
C10_ResultShape ==
  \A i \in Invs :
    LET s == inv[i] IN
    s.promise.kind = "resolved" =>
      /\ ("stdout" \in DOMAIN s.promise.value) <=> ~s.onStdOut
      /\ ("stderr" \in DOMAIN s.promise.value) <=> ~s.onStdErr
      /\ {"code", "signal"} \subseteq DOMAIN s.promise.value

\* resolved with onStdOut only, after chunks on both streams
C10_Witness ==
  \E i \in Invs :
    /\ inv[i].promise.kind = "resolved"
    /\ inv[i].onStdOut /\ ~inv[i].onStdErr
    /\ inv[i].stdoutEmitted # <<>> /\ inv[i].stderrEmitted # <<>>

\* Buffer.concat(chunks): the bytes a stream emitted, in order
RECURSIVE concatBytes(_)
concatBytes(chunks) ==
  IF chunks = <<>> THEN <<>>
  ELSE Head(chunks) \o concatBytes(Tail(chunks))

\* C11: with no handlers and a close with code 0 and no signal, the
\* resolved stdout (stderr) is the concatenation, in delivery order, of all
\* bytes emitted on that stream, decoded as text.
C11_ExactConcatenation ==
  \A i \in Invs :
    LET s == inv[i] IN
    (s.promise.kind = "resolved" /\ ~s.onStdOut /\ ~s.onStdErr) =>
      /\ s.promise.value.stdout = toString(concatBytes(s.stdoutEmitted))
      /\ s.promise.value.stderr = toString(concatBytes(s.stderrEmitted))

\* C12: once abort() has been called on a pending invocation, the promise
\* never resolves.
C12_NoResolveAfterAbort ==
  [][\A i \in Invs :
       (/\ inv[i].promise.kind = "pending"
        /\ \E k \in 1..Len(inv[i].kills) : inv[i].kills[k] = "SIGABRT")
         => inv'[i].promise.kind # "resolved"]_vars

C14_EveryRejectionHasCause ==
  \A i \in Invs :
    LET s == inv[i] IN
    s.promise.kind = "rejected" =>
      /\ "cause" \in DOMAIN s.promise.error
      /\ {"code", "signal"} \subseteq DOMAIN s.promise.error.cause

\* C15: a close event other than (0, null) that settles the promise rejects
\* with cause exactly {code, signal} of the event and the message
\* "Process killed with signal: <signal>" for a non-null signal,
\* "Process exited with code: <code>" otherwise.
C15_AbnormalCloseError ==
  \A i \in Invs :
    LET s == inv[i]
        e == s.settledBy
    IN
    (e.ev = "close" /\ ~(e.code = Some(0) /\ e.signal = NULL)) =>
      /\ s.promise.kind = "rejected"
      /\ s.promise.error.cause = [code |-> e.code, signal |-> e.signal]
      /\ s.promise.error.message =
           IF e.signal # NULL
           THEN "Process killed with signal: " \o e.signal[1]
           ELSE "Process exited with code: " \o ToString(e.code[1])
      /\ e.code = Some(1) =>
           s.promise.error.message = "Process exited with code: 1"
      /\ e.signal = Some("SIGTERM") =>
           s.promise.error.message = "Process killed with signal: SIGTERM"

\* a close event reporting SIGTERM settled the promise; another reporting
\* code 1 is covered by the same formula
C15_Witness ==
  \E i \in Invs :
    /\ inv[i].settledBy.ev = "close"
    /\ inv[i].settledBy.signal = Some("SIGTERM")
    /\ inv[i].promise.kind = "rejected"
    /\ inv[i].stdoutEmitted # <<>>

\* C16: on every path that started a process, the process has terminated
\* before the promise settles: the promise never settles while the process
\* is still running.
C16_TerminatedBeforeSettlement ==
  \A i \in Invs :
    (inv[i].child # "none" /\ inv[i].promise.kind # "pending")
      => inv[i].child = "closed"

\* C16 as amended: when the promise of a started process has settled, the
\* process has closed (settled by close), or has emitted an error event
\* (settled by error), or was sent SIGTERM by the step that settled the
\* promise (in-flight cancellation, which does not wait for the exit).
C16_TerminatedOrSignalled ==
  \A i \in Invs :
    LET s == inv[i] IN
    (s.child # "none" /\ s.promise.kind # "pending") =>
      \/ s.settledBy.ev = "close" /\ s.child = "closed"
      \/ s.settledBy.ev = "error" /\ s.errorEmitted
      \/ /\ s.settledBy.ev = "abort"
         /\ \E k \in 1..Len(s.kills) : s.kills[k] = "SIGTERM"

\* cancelled in flight after output on both streams, process not closed
C16_Witness ==
  \E i \in Invs :
    /\ inv[i].settledBy.ev = "abort"
    /\ inv[i].child = "running"
    /\ inv[i].stdoutEmitted # <<>> /\ inv[i].stderrEmitted # <<>>

\* C17: for a stream with a handler, the chunks passed to the handler are
\* at every point a prefix, in order, of the chunks the stream delivered,
\* and while the data listener is attached every delivered chunk has
\* reached the handler exactly once.
C17_HandlerOrder ==
  \A i \in Invs :
    LET s == inv[i] IN
    /\ s.onStdOut =>
         /\ Len(s.stdoutCalls) <= Len(s.stdoutEmitted)
         /\ s.stdoutCalls = SubSeq(s.stdoutEmitted, 1, Len(s.stdoutCalls))
         /\ "stdout" \in s.listeners => s.stdoutCalls = s.stdoutEmitted
    /\ s.onStdErr =>
         /\ Len(s.stderrCalls) <= Len(s.stderrEmitted)
         /\ s.stderrCalls = SubSeq(s.stderrEmitted, 1, Len(s.stderrCalls))
         /\ "stderr" \in s.listeners => s.stderrCalls = s.stderrEmitted

\* two different chunks reached onStdOut in order, a third came after the
\* listener was removed
C17_Witness ==
  \E i \in Invs :
    /\ inv[i].onStdOut
    /\ inv[i].stdoutCalls = << <<195>>, <<169>> >>
    /\ Len(inv[i].stdoutEmitted) = 3

\* C18: without a callback for a stream, the field of the resolved result
\* for that stream is a Buffer.
C18_OutputIsBuffer ==
  \A i \in Invs :
    LET s == inv[i] IN
    s.promise.kind = "resolved" =>
      /\ ~s.onStdOut => s.promise.value.stdout.type = "Buffer"
      /\ ~s.onStdErr => s.promise.value.stderr.type = "Buffer"

\* C19: the first of close, error and cancellation decides the outcome and
\* is the only one that takes effect: a later terminal event changes
\* neither the outcome nor the listeners nor the signals sent.
C19_FirstTerminalEventOnly ==
  [][\A i \in Invs :
       (/\ inv[i].promise.kind # "pending"
        /\ \/ inv'[i].child # inv[i].child
           \/ inv'[i].errorEmitted # inv[i].errorEmitted
           \/ aborted' # aborted)
         => /\ inv'[i].promise = inv[i].promise
            /\ inv'[i].listeners = inv[i].listeners
            /\ inv'[i].kills = inv[i].kills
            /\ inv'[i].cleanups = inv[i].cleanups]_vars

\* C20: on every terminal path of an invocation that started a process,
\* cleanup has run exactly once when the promise is settled.
C20_CleanupExactlyOnce ==
  \A i \in Invs :
    (inv[i].child # "none" /\ inv[i].promise.kind # "pending")
      => inv[i].cleanups = 1

\* C21: a call of abort() only sends SIGABRT: it leaves the promise and all
\* listeners as they are, and the outcome comes from the close event, so a
\* close reporting a terminating signal rejects with the same message and
\* cause whether or not abort() was called.
C21_AbortOnlyKills ==
  /\ [][\A i \in Invs :
          inv'[i].kills = Append(inv[i].kills, "SIGABRT")
            => /\ inv'[i].promise = inv[i].promise
               /\ inv'[i].listeners = inv[i].listeners
               /\ inv'[i].cleanups = inv[i].cleanups
               /\ inv'[i].child = inv[i].child]_vars
  /\ [](\A i \in Invs :
          LET s == inv[i]
              e == s.settledBy
          IN (e.ev = "close" /\ e.signal # NULL) =>
               s.promise =
                 [kind |-> "rejected",
                  error |-> [message |-> "Process killed with signal: "
                                           \o e.signal[1],
                             cause |-> [code |-> e.code,
                                        signal |-> e.signal]]])

\* a handler called abort(), the promise stayed pending until the close
\* event reported SIGABRT
C21_Witness ==
  \E i \in Invs :
    /\ inv[i].kills = <<"SIGABRT">>
    /\ inv[i].settledBy.ev = "close"
    /\ inv[i].settledBy.signal = Some("SIGABRT")
    /\ inv[i].promise.kind = "rejected"

\* C22: the coordinator signals the process at two places only: SIGTERM in
\* the step in which the cancellation signal fires, at most once per
\* invocation, and SIGABRT when caller code calls the abort capability; the
\* call of spawn, close events and error events send nothing.
C22_TwoKillEntryPoints ==
  /\ [][\A i \in Invs :
          LET s == inv[i]
              t == inv'[i]
          IN
          /\ t.kills # s.kills =>
               \/ /\ t.kills = Append(s.kills, "SIGTERM")
                  /\ ~aborted /\ aborted'
               \/ /\ t.kills = Append(s.kills, "SIGABRT")
                  /\ t.abortCap
                  /\ aborted' = aborted
                  /\ t.child = s.child
                  /\ t.errorEmitted = s.errorEmitted
                  /\ t.called = s.called
          /\ (\/ t.child # s.child
              \/ t.errorEmitted # s.errorEmitted
              \/ t.called # s.called) => t.kills = s.kills]_vars
  /\ [](\A i \in Invs :
          Cardinality({k \in 1..Len(inv[i].kills) :
                         inv[i].kills[k] = "SIGTERM"}) <= 1)

\* both signals were sent in one run: abort() from a handler, then the
\* cancellation
C22_Witness ==
  \E i \in Invs :
    /\ inv[i].kills = <<"SIGABRT", "SIGTERM">>
    /\ inv[i].child = "closed"

\* C23: when the cancellation signal fires only after a close or an error
\* event settled the promise, nothing of the invocation changes: no SIGTERM,
\* no abort listener run, same outcome.
C23_LateCancellationIsNoOp ==
  [][\A i \in Invs :
       (/\ ~aborted /\ aborted'
        /\ inv[i].settledBy.ev \in {"close", "error"})
         => inv'[i] = inv[i]]_vars

\* an invocation given the signal was settled by an error event and the
\* signal fired afterwards
C23_Witness ==
  \E i \in Invs :
    /\ aborted
    /\ inv[i].signal /\ inv[i].called /\ ~inv[i].abortedAtCall
    /\ inv[i].settledBy.ev = "error"
    /\ inv[i].kills = <<>>

\* C24: a data chunk on one stream never settles the promise, sends no
\* signal unless the handler of that stream calls abort(), and leaves the
\* accumulator and the handler log of the other stream unchanged.
C24_StreamsIndependent ==
  [][\A i \in Invs :
       LET s == inv[i]
           t == inv'[i]
       IN
       /\ t.stdoutEmitted # s.stdoutEmitted =>
            /\ t.promise = s.promise
            /\ t.listeners = s.listeners
            /\ t.stderrData = s.stderrData
            /\ t.stderrCalls = s.stderrCalls
            /\ t.kills # s.kills =>
                 s.onStdOut /\ t.kills = Append(s.kills, "SIGABRT")
       /\ t.stderrEmitted # s.stderrEmitted =>
            /\ t.promise = s.promise
            /\ t.listeners = s.listeners
            /\ t.stdoutData = s.stdoutData
            /\ t.stdoutCalls = s.stdoutCalls
            /\ t.kills # s.kills =>
                 s.onStdErr /\ t.kills = Append(s.kills, "SIGABRT")]_vars

\* stdout accumulated and stderr handled, chunks on both, still pending
C24_Witness ==
  \E i \in Invs :
    /\ ~inv[i].onStdOut /\ inv[i].onStdErr
    /\ inv[i].stdoutData # Str(<<>>)
    /\ inv[i].stderrCalls # <<>>
    /\ inv[i].promise.kind = "pending"

\* C25: two interleaved invocations share no state: a data, close or error
\* event of one invocation's process leaves the other invocation unchanged,
\* also when both were given the same signal, whose firing sends SIGTERM to
\* and rejects every invocation still running, once, and touches no other.
C25_InvocationsIsolated ==
  /\ [][\A i \in Invs : \A j \in Invs \ {i} :
          (\/ inv'[i].stdoutEmitted # inv[i].stdoutEmitted
           \/ inv'[i].stderrEmitted # inv[i].stderrEmitted
           \/ inv'[i].child # inv[i].child
           \/ inv'[i].errorEmitted # inv[i].errorEmitted)
            => inv'[j] = inv[j]]_vars
  /\ [][(~aborted /\ aborted') =>
          \A i \in Invs :
            IF inv[i].signal /\ inv[i].child = "running"
                 /\ ~inv[i].errorEmitted
            THEN /\ inv'[i].kills = Append(inv[i].kills, "SIGTERM")
                 /\ inv'[i].promise =
                      [kind |-> "rejected", error |-> AbortError]
            ELSE inv'[i] = inv[i]]_vars
  /\ [](\A i \in Invs :
          Cardinality({k \in 1..Len(inv[i].kills) :
                         inv[i].kills[k] = "SIGTERM"}) <= 1)

\* both invocations ran with the same signal and accumulate stdout; one
\* received a chunk, the other none, and the firing signal rejected both
C25_Witness ==
  /\ inv[1].settledBy.ev = "abort" /\ inv[2].settledBy.ev = "abort"
  /\ ~inv[1].onStdOut /\ ~inv[2].onStdOut
  /\ inv[1].stdoutData # Str(<<>>) /\ inv[2].stdoutData = Str(<<>>)

====
